---- MODULE Spec2Model ----
(***************************************************************************)
(* The daily task scheduler of src/src/scheduler.py (class Scheduler) and  *)
(* the parts of the `schedule` library it drives: the job list, the        *)
(* computation of a daily job's next run and run_pending.                  *)
(*                                                                         *)
(* Time is the wall clock in whole minutes; a day has DayLen minutes and a *)
(* fire time is a minute of the day.  Request threads (Admins) call the    *)
(* administrative operations; worker threads are the threads start()       *)
(* creates.  A `with self._lock:` block whose body cannot block is one     *)
(* step guarded by the lock being free; get_all_callbacks, whose body      *)
(* calls a method that takes the lock again, holds the lock across steps.  *)
(* An operation that is one step is taken by any request thread; the       *)
(* request threads 1..NumAdmin are those inside an operation of several    *)
(* steps.  execute_callback is called by schedule's run_pending in a       *)
(* worker thread.  A run is either one of many jobs and a single worker    *)
(* thread, or one of many threads and a single job (Scenarios).            *)
(*                                                                         *)
(* The command engine of src/src/line/cmd.py (class CommandBuilder) is a   *)
(* specification of its own, CmdSpec: a registry of commands and calls of  *)
(* parse_and_execute with one input line, a string of characters.          *)
(*                                                                         *)
(* The other components are specifications of their own as well, each with *)
(* the rest of the program idle: StatusSpec (the request threads of the    *)
(* scheduler, with get_status), WebSpec (process_message of webhook.py and *)
(* the registry it builds at import), QuestionSpec (QuestionsManager of    *)
(* database/question.py over the rows of table questions), UserSpec        *)
(* (UsersManager of database/user.py), LimiterSpec (is_rate_limited of     *)
(* database/limiter.py over the rows ConnectionPool.execute returns) and   *)
(* DailySpec (the broadcasts of line/daily.py, one recipient a step).      *)
(***************************************************************************)
EXTENDS Integers, Sequences, FiniteSets, TLC

\* ---- bounds of the model
MaxJobs == 2        \* register() calls (callback ids are 1..MaxJobs)
DayLen == 2         \* minutes in a day
MaxTime == 3        \* last minute of the clock
NumAdmin == 2       \* request threads
MaxWorkers == 2     \* Thread objects start() may create
MaxLine == 5        \* characters of an input line
MaxName == 1        \* characters of a registered command name
MaxWords == 2       \* words of a message text
MaxQuestions == 3   \* rows ever inserted into table questions
MaxUsers == 2       \* user ids
MaxPairs == 2       \* (ip_address, endpoint) pairs
REQUESTS_PER_MINUTE == 2    \* limiter.py line 9, 30 there
MaxRecipients == 2  \* user ids that can ask for the daily question
MaxArgs == 2        \* names in a required_args or optional_args list

\* ---- values
None == -1          \* Optional[datetime] = None
NoThread == 0       \* scheduler_thread = None, lock free
Sleep == 1          \* time.sleep(60): one minute

Ids == 1..MaxJobs
Admins == 1..NumAdmin
Workers == (NumAdmin + 1)..(NumAdmin + MaxWorkers)
Threads == Admins \cup Workers
FireTimes == 0..(DayLen - 1)
BadTime == DayLen    \* a schedule_time that at() rejects

NoRes == [val |-> "", log |-> ""]
\* no get_status call under way
NoStatus == [is_running |-> FALSE, callback_count |-> None]

\* what a run may use: register calls, Thread objects, request threads
Scenarios ==
    {[jobs |-> MaxJobs, workers |-> 1, admins |-> 1],
     [jobs |-> 1, workers |-> MaxWorkers, admins |-> NumAdmin]}

\* ---- values of the command engine: a string is a sequence of characters
Letters == {"a", "A"}
Chars == Letters \cup {" "}
Lines == UNION {[1..n -> Chars] : n \in 0..MaxLine}
CmdNames == UNION {[1..n -> Letters] : n \in 1..MaxName}
Funcs == {"f", "g"}
ArgNames == [i \in 1..MaxArgs |-> i]
ArgLists == {SubSeq(ArgNames, 1, n) : n \in 0..MaxArgs}

\* what a handler does when it is called: it returns a value or raises an
\* error
HandlerOutcomes ==
    {[kind |-> "returned", value |-> "x"], [kind |-> "returned", value |-> "y"],
     [kind |-> "raised", value |-> "err"]}
NoOutcome == [kind |-> "none", value |-> ""]

\* no parse_and_execute call has ended yet
NoCall == [kind |-> "none", name |-> <<>>, func |-> "", args |-> <<>>,
           missing |-> <<>>, value |-> "", handler |-> NoOutcome]

\* ---- values of the question repository
QuestionIds == 1..MaxQuestions
\* no QuestionsManager call yet
NoQRes == [op |-> "none", reset_if_exhausted |-> FALSE, kind |-> "none",
           id |-> 0, before |-> {}, table |-> {}]
\* where a psycopg2.Error strikes a random_question call: nowhere, at the
\* COUNT query or at the SELECT query
Failures == {"none", "count", "select"}

\* ---- values of the user repository
UserIds == 1..MaxUsers
\* the rows of table Users, lines 31-36
UserRows == [enabled : BOOLEAN, lang : {"en", "zh_tw"}]
\* the contents table Users can have
UserTables == UNION {[S -> UserRows] : S \in SUBSET UserIds}
\* no UsersManager call yet
NoURes == [op |-> "none", kind |-> "none", value |-> <<>>]

\* ---- values of the rate limiter
Pairs == 1..MaxPairs
\* no is_rate_limited call yet
NoLRes == [pair |-> 0, kind |-> "none", before |-> <<>>]

\* ---- values of the daily broadcast
DailyUsers == 1..MaxRecipients
DailyGroups == {MaxRecipients + 1}
Recipients == DailyUsers \cup DailyGroups
\* no broadcast under way
NoJob == [name |-> "none", todo |-> <<>>]
\* nothing was sent to a recipient, and the text RAN_OUT_QUESTIONS was sent
NotSent == -2
RanOut == 0

\* ---- values of the message processor
\* no event yet, and no process_message call ended yet
NoMessage == [type |-> "none", text |-> <<>>, lang |-> ""]
NoReply == [kind |-> "pending", text |-> "", lang |-> "", args |-> <<>>]
\* Langs of i18n.py
Langs == {"en", "zh_tw"}
\* the words a message text is made of
WebWords ==
    {<<"e", "c", "h", "o">>, <<"E", "c", "h", "o">>, <<"l", "a", "n", "g">>,
     <<"6">>, <<"x">>, <<"o", "w", "o">>, <<"O", "w", "o">>}
\* word lists of up to n words, joined by single blanks
RECURSIVE Joined(_)
Joined(n) ==
    IF n = 0 THEN {<<>>}
    ELSE Joined(n - 1) \cup WebWords
         \cup {b \o <<" ">> \o w : b \in Joined(n - 1) \ {<<>>}, w \in WebWords}
\* the texts of the events: blanks and a slash before the words or not
Texts ==
    {pre \o slash \o gap \o body \o post :
        pre \in {<<>>, <<" ">>}, slash \in {<<>>, <<"/">>},
        gap \in {<<>>, <<" ">>}, body \in Joined(MaxWords),
        post \in {<<>>, <<" ">>}}
\* the events process_message is called with
Messages ==
    {[type |-> "text", text |-> t, lang |-> l] : t \in Texts, l \in Langs}
    \cup {[type |-> "sticker", text |-> <<>>, lang |-> l] : l \in Langs}
\* the register_command calls of webhook.py, lines 178-186, in order
Registrations ==
    <<[name |-> <<"h", "e", "l", "p">>, func |-> "cmd_help",
       required_args |-> <<>>, optional_args |-> <<>>],
      [name |-> <<"t", "o", "g", "g", "l", "e">>, func |-> "cmd_toggle",
       required_args |-> <<>>, optional_args |-> <<>>],
      [name |-> <<"l", "a", "n", "g">>, func |-> "cmd_lang",
       required_args |-> <<>>, optional_args |-> <<"lang">>],
      [name |-> <<"e", "c", "h", "o">>, func |-> "cmd_echo",
       required_args |-> <<"msg">>, optional_args |-> <<>>],
      [name |-> <<"6">>, func |-> "cmd_6",
       required_args |-> <<>>, optional_args |-> <<>>],
      [name |-> <<"1", "1", "4">>, func |-> "cmd_6",
       required_args |-> <<>>, optional_args |-> <<>>],
      [name |-> <<"r", "o", "l", "l">>, func |-> "cmd_roll",
       required_args |-> <<>>, optional_args |-> <<>>],
      [name |-> <<"s", "c", "r", "e", "a", "m">>, func |-> "cmd_scream",
       required_args |-> <<>>, optional_args |-> <<>>],
      [name |-> <<"p", "i", "n", "g">>, func |-> "cmd_ping",
       required_args |-> <<>>, optional_args |-> <<>>]>>

VARIABLES
    callbacks,          \* self.callbacks: id -> ScheduledCallback
    jobs,               \* schedule.jobs: the library's job of each register call
    lock,               \* self._lock: the thread holding it, or NoThread
    now,                \* datetime.now(), in minutes
    nextId,             \* callback ids handed out so far (uuid4 never repeats)
    scheduler_thread,   \* self.scheduler_thread: a worker, or NoThread
    is_running,         \* self.is_running
    nThreads,           \* Thread objects created so far
    pc,                 \* where each thread is
    cid,                \* callback_id of the call a thread is in
    etime,              \* execution_time of the execute_callback a worker is in
    res,                \* what execute_callback returned to Job.run, and logged
    runq,               \* run_pending: the runnable jobs a worker has still to run
    wake,               \* when a worker's time.sleep(60) ends
    todo,               \* get_all_callbacks: the ids still to report
    out,                \* the status records get_all_callbacks has collected
    status,             \* get_status: the dict entries evaluated so far
    stopped,            \* history: stop() was called and no start() since
    scenario,           \* the run's limits, one of Scenarios
    commands,           \* CommandBuilder.commands: name -> Command
    line,               \* command_string of the parse_and_execute calls
    call,               \* how the last parse_and_execute call ended
    message,            \* ctx of process_message: the event's message, ctx.lang
    reply,              \* what the last process_message call returned
    questions,          \* the ids of the rows of table questions
    serial,             \* the next id the table's sequence gives
    returned_questions, \* QuestionsManager._returned_questions
    given,              \* history: ids random_question returned since the
                        \* tracking set was last cleared, in order
    qres,               \* the last QuestionsManager call and its result
    users,              \* table Users as the connection sees it: id -> row
    committed,          \* table Users as last committed
    ures,               \* the last UsersManager call and its result
    rate_limits,        \* table rate_limits: (ip_address, endpoint) -> row
    hits,               \* history: is_rate_limited calls of each pair since
                        \* the pair's row was last inserted
    lres,               \* the last is_rate_limited call and its result
    user_ids,           \* the lines of user_ids.txt
    group_ids,          \* the lines of group_ids.txt
    TODAY_QUESTION,     \* daily.TODAY_QUESTION: a question id, or None
    broadcast,          \* the broadcast under way and the recipients left
    got_question,       \* history: what each recipient was sent by the
                        \* last send_question
    got_answer          \* history: what each recipient was sent by the
                        \* send_answer that followed it

vars == <<callbacks, jobs, lock, now, nextId, scheduler_thread, is_running,
          nThreads, pc, cid, etime, res, runq, wake, todo, out, status,
          stopped, scenario, commands, line, call, message, reply,
          questions, serial, returned_questions, given, qres,
          users, committed, ures, rate_limits, hits, lres,
          user_ids, group_ids, TODAY_QUESTION, broadcast, got_question,
          got_answer>>

\* ---- the schedule library

\* ScheduleNextRun that always steps back to today's occurrence
ScheduleNextRunToday(at, t, last) == (t \div DayLen) * DayLen + at

\* ScheduleNextRun without the step back to today's occurrence
ScheduleNextRunTomorrow(at, t, last) == ((t \div DayLen) + 1) * DayLen + at

\* Job._schedule_next_run of every().day.at(at): tomorrow's occurrence of at,
\* or today's when the job has not run within the last day and at is still ahead.
ScheduleNextRun(at, t, last) ==
    LET nr == ((t \div DayLen) + 1) * DayLen + at
    IN  IF (last = None \/ nr - last > DayLen) /\ at > t % DayLen
        THEN nr - DayLen
        ELSE nr

\* Job.should_run
ShouldRun(j) == now >= jobs[j].next_run

\* SortJobs keeping one job of each next_run: the jobs that compare equal
\* to an earlier one are dropped
RECURSIVE SortJobsByTime(_)
SortJobsByTime(S) ==
    IF S = {} THEN <<>>
    ELSE LET m == CHOOSE j \in S : \A k \in S :
                      \/ jobs[j].next_run < jobs[k].next_run
                      \/ jobs[j].next_run = jobs[k].next_run /\ j <= k
         IN  <<m>> \o SortJobsByTime({k \in S : jobs[k].next_run # jobs[m].next_run})

\* sorted(): by next_run, jobs of equal next_run in list order
RECURSIVE SortJobs(_)
SortJobs(S) ==
    IF S = {} THEN <<>>
    ELSE LET m == CHOOSE j \in S : \A k \in S :
                      \/ jobs[j].next_run < jobs[k].next_run
                      \/ jobs[j].next_run = jobs[k].next_run /\ j <= k
         IN  <<m>> \o SortJobs(S \ {m})

\* the jobs run_pending runs, in its order
RunnableJobs == SortJobs({j \in DOMAIN jobs : ShouldRun(j)})

\* schedule.clear(tag): drops the jobs that carry the tag
ClearTag(tag) == [j \in {k \in DOMAIN jobs : tag \notin jobs[k].tags} |-> jobs[j]]

\* iteration over a dict: insertion order, which is the order of the ids
RECURSIVE InOrder(_)
InOrder(S) ==
    IF S = {} THEN <<>>
    ELSE LET m == CHOOSE j \in S : \A k \in S : j <= k
         IN  <<m>> \o InOrder(S \ {m})

\* ---- threads

IsAlive(w) == pc[w] \notin {"unborn", "created", "exited"}

\* Scheduler.__init__, and the threads before any call
SchedInit ==
    /\ callbacks = <<>>
    /\ jobs = <<>>
    /\ lock = NoThread
    /\ now = 0
    /\ nextId = 1
    /\ scheduler_thread = NoThread
    /\ is_running = FALSE
    /\ nThreads = 0
    /\ pc = [t \in Threads |-> IF t \in Admins THEN "idle" ELSE "unborn"]
    /\ cid = [t \in Threads |-> 0]
    /\ etime = [t \in Workers |-> None]
    /\ res = [t \in Workers |-> NoRes]
    /\ runq = [t \in Workers |-> <<>>]
    /\ wake = [t \in Workers |-> 0]
    /\ todo = [t \in Admins |-> <<>>]
    /\ out = [t \in Admins |-> <<>>]
    /\ status = [t \in Admins |-> NoStatus]
    /\ stopped = FALSE
    /\ scenario \in Scenarios

\* the empty table init_db leaves and the class attribute of line 78
QuestionsInit ==
    /\ questions = {}
    /\ serial = 1
    /\ returned_questions = {}
    /\ given = <<>>
    /\ qres = NoQRes

\* an empty table Users, nothing pending
UsersInit ==
    /\ users = <<>>
    /\ committed = <<>>
    /\ ures = NoURes

\* init_db of limiter.py, lines 13-25: an empty table rate_limits
LimiterInit ==
    /\ rate_limits = <<>>
    /\ hits = [p \in Pairs |-> 0]
    /\ lres = NoLRes

\* module daily imported, lines 21-24: no question yet, no recipient files
DailyIdle ==
    /\ user_ids = <<>>
    /\ group_ids = <<>>
    /\ TODAY_QUESTION = None
    /\ broadcast = NoJob
    /\ got_question = [r \in Recipients |-> NotSent]
    /\ got_answer = [r \in Recipients |-> NotSent]

\* Scheduler() and CommandBuilder(); no input line
Init ==
    /\ SchedInit
    /\ commands = <<>>
    /\ line = <<>>
    /\ call = NoCall
    /\ message = NoMessage
    /\ reply = NoReply
    /\ QuestionsInit
    /\ UsersInit
    /\ LimiterInit
    /\ DailyIdle

\* the variables of the job map and the library, of the worker life cycle,
\* of a worker's call and of a request thread's call
lifeVars == <<scheduler_thread, is_running, nThreads, stopped>>
callVars == <<cid, etime, res, runq, wake>>
statVars == <<todo, out, status>>
cmdVars == <<commands, line, call>>
webVars == <<message, reply>>
questionVars == <<questions, serial, returned_questions, given, qres>>
\* the variables of the components other than the scheduler
userVars == <<users, committed, ures>>
limiterVars == <<rate_limits, hits, lres>>
dailyVars == <<user_ids, group_ids, TODAY_QUESTION, broadcast, got_question,
               got_answer>>
appVars == <<cmdVars, webVars, questionVars, userVars, limiterVars, dailyVars>>

\* ---- administrative operations whose lock block cannot block: one step each

\* Register storing the ScheduledCallback before the job is made (line 78
\* moved before line 69): a call that fails at at() leaves an entry behind
RegisterStoresFirst(at, en) ==
    LET job == [at_time |-> at, next_run |-> ScheduleNextRun(at, now, None),
                tags |-> {}]
        cb == [schedule_time |-> at, enabled |-> en, last_run |-> None,
               next_run |-> IF at \in FireTimes THEN job.next_run ELSE None]
    IN  /\ lock = NoThread
        /\ nextId <= scenario.jobs
        /\ nextId' = nextId + 1
        /\ callbacks' = callbacks @@ (nextId :> cb)
        /\ jobs' = IF at \in FireTimes THEN jobs @@ (nextId :> job) ELSE jobs
        /\ UNCHANGED <<lock, now, pc, lifeVars, callVars, statVars, scenario, appVars>>

\* register, lines 57-82: uuid4() makes the id; at() raises for a string that
\* is not a time of day, before do() has put the job on the list and before
\* line 78 has stored the callback, and the with block releases the lock
Register(at, en) ==
    LET job == [at_time |-> at, next_run |-> ScheduleNextRun(at, now, None),
                tags |-> {}]
        cb == [schedule_time |-> at, enabled |-> en, last_run |-> None,
               next_run |-> job.next_run]
    IN  /\ lock = NoThread
        /\ nextId <= scenario.jobs
        /\ nextId' = nextId + 1
        /\ IF at \in FireTimes
           THEN /\ jobs' = jobs @@ (nextId :> job)
                /\ callbacks' = callbacks @@ (nextId :> cb)
           ELSE UNCHANGED <<jobs, callbacks>>
        /\ UNCHANGED <<lock, now, pc, lifeVars, callVars, statVars, scenario, appVars>>

\* remove_callback, lines 84-101
RemoveCallback(id) ==
    /\ lock = NoThread
    /\ IF id \in DOMAIN callbacks
       THEN /\ jobs' = ClearTag(id)
            /\ callbacks' = [k \in DOMAIN callbacks \ {id} |-> callbacks[k]]
       ELSE UNCHANGED <<jobs, callbacks>>
    /\ UNCHANGED <<lock, now, nextId, pc, lifeVars, callVars, statVars, scenario, appVars>>

\* what enable_callback and disable_callback return, lines 139-143 and
\* 148-152: True from inside the test of line 139, False after it
SetEnabledReturn(id) == IF id \in DOMAIN callbacks THEN TRUE ELSE FALSE

\* SetEnabled flipping the flag instead of storing the value
SetEnabledFlips(id, en) ==
    /\ lock = NoThread
    /\ callbacks' = IF id \in DOMAIN callbacks
                    THEN [callbacks EXCEPT ![id].enabled = ~@]
                    ELSE callbacks
    /\ UNCHANGED <<jobs, lock, now, nextId, pc, lifeVars, callVars, statVars,
                   scenario, appVars>>

\* the body shared by enable_callback and disable_callback
SetEnabled(id, en) ==
    /\ lock = NoThread
    /\ callbacks' = IF id \in DOMAIN callbacks
                    THEN [callbacks EXCEPT ![id].enabled = en]
                    ELSE callbacks
    /\ UNCHANGED <<jobs, lock, now, nextId, pc, lifeVars, callVars, statVars,
                   scenario, appVars>>

\* enable_callback, lines 136-143
EnableCallback(id) == SetEnabled(id, TRUE)

\* disable_callback, lines 145-152
DisableCallback(id) == SetEnabled(id, FALSE)

\* ---- status

\* the dict get_callback_status builds, lines 189-195
StatusOf(id) ==
    [id |-> id,
     schedule_time |-> callbacks[id].schedule_time,
     enabled |-> callbacks[id].enabled,
     last_run |-> callbacks[id].last_run,
     next_run |-> callbacks[id].next_run]

\* a request thread calls get_callback_status(id)
GetCallbackStatusCall(t, id) ==
    /\ t <= scenario.admins
    /\ pc[t] = "idle"
    /\ pc' = [pc EXCEPT ![t] = "gcs_lock"]
    /\ cid' = [cid EXCEPT ![t] = id]
    /\ UNCHANGED <<callbacks, jobs, lock, now, nextId, lifeVars, etime, res,
                   runq, wake, statVars, scenario, appVars>>

\* get_callback_status, lines 184-195: takes the lock, reads, returns to its
\* caller, which is the request thread or get_all_callbacks' comprehension
GetCallbackStatus(t) ==
    /\ pc[t] = "gcs_lock"
    /\ lock = NoThread
    /\ IF todo[t] # <<>>
       THEN /\ out' = [out EXCEPT ![t] =
                         @ \o (IF cid[t] \in DOMAIN callbacks
                               THEN <<StatusOf(cid[t])>> ELSE <<>>)]
            /\ todo' = [todo EXCEPT ![t] = Tail(@)]
            /\ pc' = [pc EXCEPT ![t] = "gac_iter"]
       ELSE /\ pc' = [pc EXCEPT ![t] = "idle"]
            /\ UNCHANGED <<todo, out>>
    /\ cid' = [cid EXCEPT ![t] = 0]
    /\ UNCHANGED <<callbacks, jobs, lock, now, nextId, lifeVars, etime, res,
                   runq, wake, status, scenario, appVars>>

\* get_all_callbacks, line 199: takes the lock and starts the comprehension
\* over self.callbacks; called by a request thread or by get_status
GetAllCallbacks(t) ==
    /\ t <= scenario.admins
    /\ pc[t] \in {"idle", "gs_all"}
    /\ lock = NoThread
    /\ lock' = t
    /\ todo' = [todo EXCEPT ![t] = InOrder(DOMAIN callbacks)]
    /\ out' = [out EXCEPT ![t] = <<>>]
    /\ pc' = [pc EXCEPT ![t] = "gac_iter"]
    /\ UNCHANGED <<callbacks, jobs, now, nextId, lifeVars, callVars, status,
                   scenario, appVars>>

\* get_all_callbacks, line 200: the next element of the comprehension calls
\* get_callback_status with the lock still held; at the end the list is
\* returned, to the request thread or to get_status, and the lock released
GetAllCallbacksIter(t) ==
    /\ pc[t] = "gac_iter"
    /\ IF todo[t] # <<>>
       THEN /\ cid' = [cid EXCEPT ![t] = Head(todo[t])]
            /\ pc' = [pc EXCEPT ![t] = "gcs_lock"]
            /\ UNCHANGED lock
       ELSE /\ lock' = NoThread
            /\ pc' = [pc EXCEPT ![t] = IF status[t] = NoStatus
                                       THEN "idle" ELSE "gs_return"]
            /\ UNCHANGED cid
    /\ UNCHANGED <<callbacks, jobs, now, nextId, lifeVars, etime, res, runq,
                   wake, statVars, scenario, appVars>>

\* get_status, lines 204-206: a request thread evaluates the first two
\* entries of the dict, is_running and len(self.callbacks), with no lock
\* held; get_all_callbacks is called next
GetStatus(t) ==
    /\ t <= scenario.admins
    /\ pc[t] = "idle"
    /\ status' = [status EXCEPT ![t] =
                    [is_running |-> is_running,
                     callback_count |-> Cardinality(DOMAIN callbacks)]]
    /\ pc' = [pc EXCEPT ![t] = "gs_all"]
    /\ UNCHANGED <<callbacks, jobs, lock, now, nextId, lifeVars, callVars,
                   todo, out, scenario, appVars>>

\* the dict get_status returns once get_all_callbacks has returned its list
StatusDict(t) ==
    [is_running |-> status[t].is_running,
     callback_count |-> status[t].callback_count,
     callbacks |-> out[t]]

\* get_status, lines 203-208: the dict is returned to the request thread
GetStatusReturn(t) ==
    /\ pc[t] = "gs_return"
    /\ status' = [status EXCEPT ![t] = NoStatus]
    /\ pc' = [pc EXCEPT ![t] = "idle"]
    /\ UNCHANGED <<callbacks, jobs, lock, now, nextId, lifeVars, callVars,
                   todo, out, scenario, appVars>>

\* ---- execute_callback, called by schedule's Job.run in a worker thread

\* a return of execute_callback to Job.run
ExecReturn(t, val, log) ==
    /\ pc' = [pc EXCEPT ![t] = "job_done"]
    /\ etime' = [etime EXCEPT ![t] = None]
    /\ res' = [res EXCEPT ![t] = [val |-> val, log |-> log]]

\* ExecLookup without the test of the enabled flag (lines 112-114 left out)
ExecLookupIgnoresEnabled(t) ==
    /\ pc[t] = "exec_lock"
    /\ lock = NoThread
    /\ IF cid[t] \notin DOMAIN callbacks
       THEN ExecReturn(t, "False", "not found")
       ELSE /\ pc' = [pc EXCEPT ![t] = "exec_call"]
            /\ UNCHANGED <<etime, res>>
    /\ UNCHANGED <<callbacks, jobs, lock, now, nextId, lifeVars, cid, runq,
                   wake, statVars, scenario, appVars>>

\* ExecLookup taking a missing callback for a skipped one (True for False at
\* line 109)
ExecLookupMissingOk(t) ==
    /\ pc[t] = "exec_lock"
    /\ lock = NoThread
    /\ IF cid[t] \notin DOMAIN callbacks
       THEN ExecReturn(t, "True", "not found")
       ELSE IF ~callbacks[cid[t]].enabled
            THEN ExecReturn(t, "True", "skipping disabled")
            ELSE /\ pc' = [pc EXCEPT ![t] = "exec_call"]
                 /\ UNCHANGED <<etime, res>>
    /\ UNCHANGED <<callbacks, jobs, lock, now, nextId, lifeVars, cid, runq,
                   wake, statVars, scenario, appVars>>

\* lines 106-114: the lookup under the lock
ExecLookup(t) ==
    /\ pc[t] = "exec_lock"
    /\ lock = NoThread
    /\ IF cid[t] \notin DOMAIN callbacks
       THEN ExecReturn(t, "False", "not found")
       ELSE IF ~callbacks[cid[t]].enabled
            THEN ExecReturn(t, "True", "skipping disabled")
            ELSE /\ pc' = [pc EXCEPT ![t] = "exec_call"]
                 /\ UNCHANGED <<etime, res>>
    /\ UNCHANGED <<callbacks, jobs, lock, now, nextId, lifeVars, cid, runq,
                   wake, statVars, scenario, appVars>>

\* ExecCall with the call of the callback moved into the with block of lines
\* 106-114: the lock is held while the callback runs
ExecCallHoldingLock(t) ==
    /\ pc[t] = "exec_call"
    /\ lock = NoThread
    /\ lock' = t
    /\ etime' = [etime EXCEPT ![t] = now]
    /\ pc' = [pc EXCEPT ![t] = "exec_action"]
    /\ UNCHANGED <<callbacks, jobs, now, nextId, lifeVars, cid, res, runq,
                   wake, statVars, scenario, appVars>>

\* lines 116-119: the start time is taken and the callback is called, the
\* lock not held
ExecCall(t) ==
    /\ pc[t] = "exec_call"
    /\ etime' = [etime EXCEPT ![t] = now]
    /\ pc' = [pc EXCEPT ![t] = "exec_action"]
    /\ UNCHANGED <<callbacks, jobs, lock, now, nextId, lifeVars, cid, res,
                   runq, wake, statVars, scenario, appVars>>

\* line 119: the callback returns
ActionReturns(t) ==
    /\ pc[t] = "exec_action"
    /\ pc' = [pc EXCEPT ![t] = "exec_post"]
    /\ UNCHANGED <<callbacks, jobs, lock, now, nextId, lifeVars, callVars,
                   statVars, scenario, appVars>>

\* ActionRaises without the handler of lines 132-134: the error leaves
\* execute_callback, Job.run and run_pending and reaches the handler of the
\* worker loop (lines 161-163), which logs it and sleeps
ActionRaisesUncaught(t) ==
    /\ pc[t] = "exec_action"
    /\ pc' = [pc EXCEPT ![t] = "sleep"]
    /\ wake' = [wake EXCEPT ![t] = now + Sleep]
    /\ runq' = [runq EXCEPT ![t] = <<>>]
    /\ cid' = [cid EXCEPT ![t] = 0]
    /\ etime' = [etime EXCEPT ![t] = None]
    /\ res' = [res EXCEPT ![t] = [val |-> "raised", log |-> "scheduler error"]]
    /\ UNCHANGED <<callbacks, jobs, lock, now, nextId, lifeVars, statVars,
                   scenario, appVars>>

\* ActionRaises with the bookkeeping of line 123 made in the handler too: a
\* failed run is recorded as the last run
ActionRaisesRecorded(t) ==
    /\ pc[t] = "exec_action"
    /\ callbacks' = IF cid[t] \in DOMAIN callbacks
                    THEN [callbacks EXCEPT ![cid[t]].last_run = etime[t]]
                    ELSE callbacks
    /\ ExecReturn(t, "False", "failed")
    /\ UNCHANGED <<jobs, lock, now, nextId, lifeVars, cid, runq, wake,
                   statVars, scenario, appVars>>

\* lines 119, 132-134: the callback raises; the handler logs it and returns
\* False
ActionRaises(t) ==
    /\ pc[t] = "exec_action"
    /\ ExecReturn(t, "False", "failed")
    /\ UNCHANGED <<callbacks, jobs, lock, now, nextId, lifeVars, cid, runq,
                   wake, statVars, scenario, appVars>>

\* line 125: the jobs whose tags name the callback, in list order
MatchingJobs(id) == InOrder({j \in DOMAIN jobs : id \in jobs[j].tags})

\* Bookkeeping without the second test of line 122, writing through the
\* ScheduledCallback the lookup found: a removed job is stored again
BookkeepingUnchecked(t) ==
    IF cid[t] \in DOMAIN callbacks
    THEN [callbacks EXCEPT ![cid[t]].last_run = etime[t]]
    ELSE callbacks @@
         (cid[t] :> [schedule_time |-> jobs[cid[t]].at_time, enabled |-> TRUE,
                     last_run |-> etime[t], next_run |-> jobs[cid[t]].next_run])

\* lines 122-127: the bookkeeping of a job that is still registered
Bookkeeping(t) ==
    IF cid[t] \in DOMAIN callbacks
    THEN LET m == MatchingJobs(cid[t])
         IN  [callbacks EXCEPT
                ![cid[t]].last_run = etime[t],
                ![cid[t]].next_run = IF m # <<>> THEN jobs[m[1]].next_run ELSE @]
    ELSE callbacks

\* ExecPost without the with block of line 121: the bookkeeping is made
\* whoever holds the lock
ExecPostUnlocked(t) ==
    /\ pc[t] = "exec_post"
    /\ callbacks' = Bookkeeping(t)
    /\ ExecReturn(t, "True", "executed")
    /\ UNCHANGED <<jobs, lock, now, nextId, lifeVars, cid, runq, wake,
                   statVars, scenario, appVars>>

\* lines 121-130: the bookkeeping under the lock, then the return of True
ExecPost(t) ==
    /\ pc[t] = "exec_post"
    /\ lock = NoThread
    /\ callbacks' = Bookkeeping(t)
    /\ ExecReturn(t, "True", "executed")
    /\ UNCHANGED <<jobs, lock, now, nextId, lifeVars, cid, runq, wake,
                   statVars, scenario, appVars>>

\* ---- the worker thread

\* run_pending goes on to its next runnable job, or returns and the worker
\* sleeps (line 160)
NextJob(w, q) ==
    IF q = <<>>
    THEN /\ pc' = [pc EXCEPT ![w] = "sleep"]
         /\ wake' = [wake EXCEPT ![w] = now + Sleep]
         /\ runq' = [runq EXCEPT ![w] = <<>>]
         /\ cid' = [cid EXCEPT ![w] = 0]
    ELSE /\ pc' = [pc EXCEPT ![w] = "exec_lock"]
         /\ cid' = [cid EXCEPT ![w] = Head(q)]
         /\ runq' = [runq EXCEPT ![w] = Tail(q)]
         /\ UNCHANGED wake

\* _run_scheduler, line 156
WorkerBegin(w) ==
    /\ pc[w] = "spawned"
    /\ is_running' = TRUE
    /\ pc' = [pc EXCEPT ![w] = "loop"]
    /\ UNCHANGED <<callbacks, jobs, lock, now, nextId, scheduler_thread,
                   nThreads, stopped, callVars, statVars, scenario, appVars>>

\* _run_scheduler, lines 157-159: the loop test, then run_pending collects
\* the runnable jobs; the thread ends when is_running is False
WorkerLoop(w) ==
    /\ pc[w] = "loop"
    /\ IF is_running
       THEN NextJob(w, RunnableJobs)
       ELSE /\ pc' = [pc EXCEPT ![w] = "exited"]
            /\ UNCHANGED <<cid, runq, wake>>
    /\ UNCHANGED <<callbacks, jobs, lock, now, nextId, lifeVars, etime, res,
                   statVars, scenario, appVars>>

\* JobDone taking the False of a failed run for schedule.CancelJob: the job
\* is taken off the list
JobDoneCancelsFailed(w) ==
    /\ pc[w] = "job_done"
    /\ jobs' = IF cid[w] \notin DOMAIN jobs THEN jobs
               ELSE IF res[w].log = "failed"
                    THEN [j \in DOMAIN jobs \ {cid[w]} |-> jobs[j]]
                    ELSE [jobs EXCEPT ![cid[w]].next_run =
                             ScheduleNextRun(jobs[cid[w]].at_time, now, now)]
    /\ res' = [res EXCEPT ![w] = NoRes]
    /\ NextJob(w, runq[w])
    /\ UNCHANGED <<callbacks, lock, now, nextId, lifeVars, etime, statVars,
                   scenario, appVars>>

\* schedule's Job.run after job_func returned: last_run is set and
\* _schedule_next_run computes the job's next run
JobDone(w) ==
    /\ pc[w] = "job_done"
    /\ jobs' = IF cid[w] \in DOMAIN jobs
               THEN [jobs EXCEPT ![cid[w]].next_run =
                                   ScheduleNextRun(jobs[cid[w]].at_time, now, now)]
               ELSE jobs
    /\ res' = [res EXCEPT ![w] = NoRes]
    /\ NextJob(w, runq[w])
    /\ UNCHANGED <<callbacks, lock, now, nextId, lifeVars, etime, statVars,
                   scenario, appVars>>

\* line 160: time.sleep(60) is over
WorkerWake(w) ==
    /\ pc[w] = "sleep"
    /\ now >= wake[w]
    /\ pc' = [pc EXCEPT ![w] = "loop"]
    /\ wake' = [wake EXCEPT ![w] = 0]
    /\ UNCHANGED <<callbacks, jobs, lock, now, nextId, lifeVars, cid, etime,
                   res, runq, statVars, scenario, appVars>>

\* ---- start and stop

\* start, line 167: the test; line 173 when a live thread is found
StartCheck(t) ==
    /\ t <= scenario.admins
    /\ pc[t] = "idle"
    /\ IF scheduler_thread = NoThread \/ ~IsAlive(scheduler_thread)
       THEN /\ nThreads + Cardinality({a \in Admins : pc[a] = "start_create"})
                 < scenario.workers
            /\ pc' = [pc EXCEPT ![t] = "start_create"]
       ELSE UNCHANGED pc
    /\ stopped' = FALSE
    /\ UNCHANGED <<callbacks, jobs, lock, now, nextId, scheduler_thread,
                   is_running, nThreads, callVars, statVars, scenario, appVars>>

\* start, lines 168-169: a new Thread object is stored
StartCreate(t) ==
    /\ pc[t] = "start_create"
    /\ scheduler_thread' = NumAdmin + nThreads + 1
    /\ nThreads' = nThreads + 1
    /\ pc' = [pc EXCEPT ![t] = "start_launch",
                        ![NumAdmin + nThreads + 1] = "created"]
    /\ UNCHANGED <<callbacks, jobs, lock, now, nextId, is_running, stopped,
                   callVars, statVars, scenario, appVars>>

\* start, line 170: self.scheduler_thread.start(); a Thread can be started
\* once, a second start raises RuntimeError
StartLaunch(t) ==
    /\ pc[t] = "start_launch"
    /\ pc' = IF pc[scheduler_thread] = "created"
             THEN [pc EXCEPT ![t] = "idle", ![scheduler_thread] = "spawned"]
             ELSE [pc EXCEPT ![t] = "idle"]
    /\ UNCHANGED <<callbacks, jobs, lock, now, nextId, lifeVars, callVars,
                   statVars, scenario, appVars>>

\* a start() call is under way in some request thread
Starting == \E a \in Admins : pc[a] \in {"start_create", "start_launch"}

\* Stop ending the worker thread where it stands
StopKills ==
    /\ is_running' = FALSE
    /\ stopped' = ~Starting
    /\ pc' = [t \in Threads |->
                IF t = scheduler_thread /\ IsAlive(t) THEN "exited" ELSE pc[t]]
    /\ UNCHANGED <<callbacks, jobs, lock, now, nextId, scheduler_thread,
                   nThreads, callVars, statVars, scenario, appVars>>

\* stop, lines 177-180: the flag is cleared; the join is made only when there
\* is a live thread, waits at most two seconds and returns whether or not the
\* thread has ended, so stop() returns in every state.  stopped records the
\* call unless a start() call is under way.
Stop ==
    /\ is_running' = FALSE
    /\ stopped' = ~Starting
    /\ UNCHANGED <<callbacks, jobs, lock, now, nextId, scheduler_thread,
                   nThreads, pc, callVars, statVars, scenario, appVars>>

\* ---- the clock

Tick ==
    /\ now < MaxTime
    /\ now' = now + 1
    /\ UNCHANGED <<callbacks, jobs, lock, nextId, pc, lifeVars, callVars,
                   statVars, scenario, appVars>>

Next ==
    \/ \E at \in FireTimes \cup {BadTime}, en \in BOOLEAN : Register(at, en)
    \/ \E id \in Ids : RemoveCallback(id)
    \/ \E id \in Ids : EnableCallback(id)
    \/ \E id \in Ids : DisableCallback(id)
    \/ \E t \in Admins, id \in Ids : GetCallbackStatusCall(t, id)
    \/ \E t \in Admins : GetCallbackStatus(t)
    \/ \E t \in Admins : GetAllCallbacks(t)
    \/ \E t \in Admins : GetAllCallbacksIter(t)
    \/ \E w \in Workers : ExecLookup(w)
    \/ \E w \in Workers : ExecCall(w)
    \/ \E w \in Workers : ActionReturns(w)
    \/ \E w \in Workers : ActionRaises(w)
    \/ \E w \in Workers : ExecPost(w)
    \/ \E w \in Workers : WorkerBegin(w)
    \/ \E w \in Workers : WorkerLoop(w)
    \/ \E w \in Workers : JobDone(w)
    \/ \E w \in Workers : WorkerWake(w)
    \/ \E t \in Admins : StartCheck(t)
    \/ \E t \in Admins : StartCreate(t)
    \/ \E t \in Admins : StartLaunch(t)
    \/ Stop
    \/ Tick

Spec == Init /\ [][Next]_vars

FairSpec ==
    /\ Spec
    /\ WF_vars(Tick)
    /\ \A t \in Admins :
          /\ SF_vars(GetCallbackStatus(t))
          /\ WF_vars(GetAllCallbacksIter(t))
          /\ WF_vars(StartCreate(t))
          /\ WF_vars(StartLaunch(t))
    /\ \A w \in Workers :
          /\ SF_vars(ExecLookup(w))
          /\ WF_vars(ExecCall(w))
          /\ WF_vars(ActionReturns(w) \/ ActionRaises(w))
          /\ SF_vars(ExecPost(w))
          /\ WF_vars(WorkerBegin(w))
          /\ WF_vars(WorkerLoop(w))
          /\ WF_vars(JobDone(w))
          /\ WF_vars(WorkerWake(w))

\* ---- the request threads alone: the administrative and status operations
\* of the scheduler, get_status among them, before start() is called

StatusNext ==
    \/ \E at \in FireTimes \cup {BadTime}, en \in BOOLEAN : Register(at, en)
    \/ \E id \in Ids : RemoveCallback(id)
    \/ \E id \in Ids : EnableCallback(id)
    \/ \E id \in Ids : DisableCallback(id)
    \/ \E t \in Admins, id \in Ids : GetCallbackStatusCall(t, id)
    \/ \E t \in Admins : GetCallbackStatus(t)
    \/ \E t \in Admins : GetStatus(t)
    \/ \E t \in Admins : GetAllCallbacks(t)
    \/ \E t \in Admins : GetAllCallbacksIter(t)
    \/ \E t \in Admins : GetStatusReturn(t)

StatusSpec == Init /\ [][StatusNext]_vars

\* ---- the command engine, src/src/line/cmd.py

schedVars == <<callbacks, jobs, lock, now, nextId, pc, lifeVars, callVars,
               statVars, scenario>>

\* str.lower()
Lower(c) ==
    CASE c = "A" -> "a" [] c = "E" -> "e" [] c = "O" -> "o" [] OTHER -> c
LowerStr(str) == [i \in DOMAIN str |-> Lower(str[i])]

\* str.split(): the maximal runs of characters that are not whitespace
RECURSIVE SplitAcc(_, _, _)
SplitAcc(str, cur, acc) ==
    IF str = <<>>
    THEN IF cur = <<>> THEN acc ELSE Append(acc, cur)
    ELSE IF Head(str) = " "
         THEN SplitAcc(Tail(str), <<>>,
                       IF cur = <<>> THEN acc ELSE Append(acc, cur))
         ELSE SplitAcc(Tail(str), Append(cur, Head(str)), acc)
\* Split as str.split(" ") makes it for a string without a token: a list of
\* one empty string
SplitKeepsEmpty(str) ==
    IF SplitAcc(str, <<>>, <<>>) = <<>> THEN << <<>> >>
    ELSE SplitAcc(str, <<>>, <<>>)

Split(str) == SplitAcc(str, <<>>, <<>>)

\* Take without the slice: every argument is passed on
TakeAll(q, n) == q

\* the slice q[:n]
Take(q, n) == SubSeq(q, 1, IF n < Len(q) THEN n ELSE Len(q))

\* CommandBuilder(), line 43, and the input line of the run's calls; the
\* scheduler is idle
CmdInit ==
    /\ SchedInit
    /\ scenario.workers = 1
    /\ commands = <<>>
    /\ line \in Lines
    /\ call = NoCall
    /\ message = NoMessage
    /\ reply = NoReply
    /\ QuestionsInit
    /\ UsersInit
    /\ LimiterInit
    /\ DailyIdle

\* register_command, lines 45-48; the registry is filled before the first
\* parse_and_execute call, as the module fills CMD at import (lines 137-146)
RegisterCommand(name, func, required_args, optional_args) ==
    LET command == [name |-> name, func |-> func,
                    required_args |-> required_args,
                    optional_args |-> optional_args]
    IN  /\ call = NoCall
        /\ commands' = [n \in DOMAIN commands \cup {name} |->
                           IF n = name THEN command ELSE commands[n]]
        /\ UNCHANGED <<line, call, schedVars, webVars, questionVars, userVars,
                   limiterVars, dailyVars>>

\* parse_and_execute raises one of its own errors: no handler was called
Ended(kind, name, func, args, missing) ==
    [kind |-> kind, name |-> name, func |-> func, args |-> args,
     missing |-> missing, value |-> "", handler |-> NoOutcome]

\* Handled with a handler's error swallowed: None is returned
HandledSwallowed(name, func, args, outcome) ==
    [kind |-> "returned", name |-> name, func |-> func, args |-> args,
     missing |-> <<>>,
     value |-> IF outcome.kind = "raised" THEN "" ELSE outcome.value,
     handler |-> outcome]

\* line 71: the handler is called once; what it returns is returned and what
\* it raises leaves parse_and_execute
Handled(name, func, args, outcome) ==
    [kind |-> outcome.kind, name |-> name, func |-> func, args |-> args,
     missing |-> <<>>, value |-> outcome.value, handler |-> outcome]

\* CommandName without lower(): the token as typed
CommandNameRaw(parts) == Head(parts)

\* lines 57-59: the first token, lower-cased
CommandName(parts) == LowerStr(Head(parts))

\* MissingArgs naming only the arguments that were not supplied
MissingArgsOnly(command, args) ==
    SubSeq(command.required_args, Len(args) + 1, Len(command.required_args))

\* line 66: the list MissingArgumentsError carries
MissingArgs(command, args) == command.required_args

\* parse_and_execute, lines 50-71, of command_string; outcome is what the
\* handler does
Parsed(command_string, outcome) ==
    LET parts == Split(command_string)
        command_name == CommandName(parts)
        args == Tail(parts)
        command == commands[command_name]
        args_amount == Len(command.required_args)
                       + (IF command.optional_args # <<>>
                          THEN Len(command.optional_args) ELSE 0)
    IN  IF parts = <<>>
        THEN Ended("NoCommandError", <<>>, "", <<>>, <<>>)
        ELSE IF command_name \notin DOMAIN commands
        THEN Ended("UnknownCommandError", command_name, "", <<>>, <<>>)
        ELSE IF Len(args) < Len(command.required_args)
        THEN Ended("MissingArgumentsError", command_name, "", <<>>,
                   MissingArgs(command, args))
        ELSE Handled(command_name, command.func,
                     Take(args, args_amount), outcome)

\* a parse_and_execute call on the input line
ParseAndExecute(outcome) ==
    /\ call' = Parsed(line, outcome)
    /\ UNCHANGED <<commands, line, schedVars, webVars, questionVars, userVars,
                   limiterVars, dailyVars>>

CmdNext ==
    \/ \E name \in CmdNames, func \in Funcs, req \in ArgLists, opt \in ArgLists :
          RegisterCommand(name, func, req, opt)
    \/ \E outcome \in HandlerOutcomes : ParseAndExecute(outcome)

CmdSpec == CmdInit /\ [][CmdNext]_vars

\* ---- the message processor, src/src/line/webhook.py

\* str.strip(): leading and trailing whitespace removed
RECURSIVE LStrip(_)
LStrip(str) ==
    IF str # <<>> /\ Head(str) = " " THEN LStrip(Tail(str)) ELSE str
RECURSIVE RStrip(_)
RStrip(str) ==
    IF str # <<>> /\ str[Len(str)] = " "
    THEN RStrip(SubSeq(str, 1, Len(str) - 1)) ELSE str
Strip(str) == RStrip(LStrip(str))

\* str.startswith(c) for a one-character c
StartsWith(str, c) == str # <<>> /\ Head(str) = c

\* sub in str
Contains(str, sub) ==
    \E i \in 1..(Len(str) - Len(sub) + 1) :
        SubSeq(str, i, i + Len(sub) - 1) = sub

\* str(list), the text of a list
Str(list) == <<"[">> \o list \o <<"]">>

\* the replies: a literal text, None, the translation I18N.get(key, lang),
\* the translation with .format(arg) applied, and an error that leaves
\* process_message
Literal(txt) == [kind |-> "text", text |-> txt, lang |-> "", args |-> <<>>]
ReplyNone == [kind |-> "None", text |-> "", lang |-> "", args |-> <<>>]
I18NGet(key, lang) == [kind |-> "i18n", text |-> key, lang |-> lang, args |-> <<>>]
Format(template, arg) == [template EXCEPT !.args = <<arg>>]
Raised(err) == [kind |-> "raised", text |-> err, lang |-> "", args |-> <<>>]

\* OnEngineError with no clause for MissingArgumentsError: it is raised on
OnEngineErrorTwoClauses(e, lang) ==
    CASE e.kind = "NoCommandError" -> Literal("owob")
      [] e.kind = "UnknownCommandError" -> I18NGet("cmd_unknown", lang)
      [] OTHER -> Raised(e.kind)

\* the except clauses of process_message, lines 203-208
OnEngineError(e, lang) ==
    CASE e.kind = "NoCommandError" -> Literal("owob")
      [] e.kind = "UnknownCommandError" -> I18NGet("cmd_unknown", lang)
      [] e.kind = "MissingArgumentsError" ->
            Format(I18NGet("missing_args", lang), Str(e.missing))

\* the module is imported: CMD is empty and is filled by the registrations;
\* the event of the run's process_message calls
WebInit ==
    /\ SchedInit
    /\ scenario.workers = 1
    /\ commands = <<>>
    /\ line = <<>>
    /\ call = NoCall
    /\ message \in Messages
    /\ reply = NoReply
    /\ QuestionsInit
    /\ UsersInit
    /\ LimiterInit
    /\ DailyIdle

\* all of CMD's registrations are made
Imported == Cardinality(DOMAIN commands) = Len(Registrations)

\* the next CMD.register_command call of lines 178-186
WebRegister ==
    /\ ~Imported
    /\ LET r == Registrations[Cardinality(DOMAIN commands) + 1]
       IN  RegisterCommand(r.name, r.func, r.required_args, r.optional_args)

\* process_message, lines 189-215; outcome is what the command's handler
\* does if one is called
ProcessMessage(outcome) ==
    LET text == Strip(message.text)
        result == Parsed(Tail(text), outcome)
    IN  /\ Imported
        /\ IF message.type = "text" /\ StartsWith(text, "/")
           THEN /\ call' = result
                /\ reply' =
                      CASE result.kind = "returned" -> Literal(result.value)
                        [] result.kind = "raised" -> Raised(result.value)
                        [] OTHER -> OnEngineError(result, message.lang)
           ELSE /\ reply' =
                      IF /\ message.type = "text"
                         /\ \/ Contains(LowerStr(text), <<"o", "u", "o">>)
                            \/ Contains(LowerStr(text), <<"o", "w", "o">>)
                            \/ Contains(LowerStr(text), <<"u", "w", "u">>)
                      THEN Literal("Ciallo")
                      ELSE ReplyNone
                /\ UNCHANGED call
        /\ UNCHANGED <<commands, line, message, schedVars, questionVars, userVars,
                   limiterVars, dailyVars>>

WebNext ==
    \/ WebRegister
    \/ \E outcome \in HandlerOutcomes : ProcessMessage(outcome)

WebSpec == WebInit /\ [][WebNext]_vars

\* ---- the question repository, src/src/database/question.py

\* create_question, lines 90-112: INSERT, the id comes from the sequence
CreateQuestion ==
    /\ serial <= MaxQuestions
    /\ questions' = questions \cup {serial}
    /\ serial' = serial + 1
    /\ qres' = [NoQRes EXCEPT !.op = "create", !.kind = "None", !.id = serial]
    /\ UNCHANGED <<returned_questions, given, schedVars, cmdVars, webVars,
                   userVars, limiterVars, dailyVars>>

\* delete_question, lines 162-169: DELETE, returns whether a row went
DeleteQuestion(id) ==
    /\ questions' = questions \ {id}
    /\ qres' = [NoQRes EXCEPT !.op = "delete", !.id = id,
                             !.kind = IF id \in questions THEN "True" ELSE "False"]
    /\ UNCHANGED <<serial, returned_questions, given, schedVars, cmdVars, webVars,
                   userVars, limiterVars, dailyVars>>

\* Exhausted with a strict comparison
ExhaustedStrict(ret, total_questions) == Cardinality(ret) > total_questions

\* line 226: all questions have been returned
Exhausted(ret, total_questions) == Cardinality(ret) >= total_questions

\* Candidates without the WHERE clause: every row
CandidatesAll(table, ret) == table

\* lines 233-249: the rows the SELECT orders at random, all rows when the
\* tracking set is empty and the rows whose id is not in it otherwise
Candidates(table, ret) ==
    IF ret = {} THEN table ELSE {q \in table : q \notin ret}

\* random_question, lines 201-260, as one call; pick is the row ORDER BY
\* RANDOM() puts first, failure where the database raises an error
RandomQuestionCall(reset_if_exhausted, pick, failure) ==
    LET total_questions == Cardinality(questions)
        exhausted == Exhausted(returned_questions, total_questions)
        cleared == exhausted /\ reset_if_exhausted
        ret == IF cleared THEN {} ELSE returned_questions
        rows == Candidates(questions, ret)
        result(kind, id) ==
            [op |-> "random", reset_if_exhausted |-> reset_if_exhausted,
             kind |-> kind, id |-> id, before |-> returned_questions,
             table |-> questions]
    IN  /\ Len(given) <= MaxQuestions
        /\ pick \in rows \/ (rows = {} /\ pick = 0)
        /\ IF failure = "count"
           THEN /\ qres' = result("raised", 0)
                /\ UNCHANGED <<returned_questions, given>>
           ELSE IF exhausted /\ ~reset_if_exhausted
           THEN /\ qres' = result("None", 0)
                /\ UNCHANGED <<returned_questions, given>>
           ELSE IF failure = "select"
           THEN /\ qres' = result("raised", 0)
                /\ returned_questions' = ret
                /\ given' = IF cleared THEN <<>> ELSE given
           ELSE IF pick # 0
           THEN /\ qres' = result("question", pick)
                /\ returned_questions' = ret \cup {pick}
                /\ given' = Append(IF cleared THEN <<>> ELSE given, pick)
           ELSE /\ qres' = result("None", 0)
                /\ returned_questions' = ret
                /\ given' = IF cleared THEN <<>> ELSE given
        /\ UNCHANGED <<questions, serial>>

\* a random_question call by itself
RandomQuestion(reset_if_exhausted, pick, failure) ==
    /\ RandomQuestionCall(reset_if_exhausted, pick, failure)
    /\ UNCHANGED <<schedVars, cmdVars, webVars, userVars, limiterVars, dailyVars>>

\* reset_returned_questions, lines 262-266
ResetReturnedQuestions ==
    /\ returned_questions' = {}
    /\ given' = <<>>
    /\ qres' = [NoQRes EXCEPT !.op = "reset", !.kind = "None",
                             !.before = returned_questions]
    /\ UNCHANGED <<questions, serial, schedVars, cmdVars, webVars,
                   userVars, limiterVars, dailyVars>>

QuestionNext ==
    \/ CreateQuestion
    \/ \E id \in QuestionIds : DeleteQuestion(id)
    \/ \E reset_if_exhausted \in BOOLEAN, pick \in QuestionIds \cup {0},
          failure \in Failures :
          RandomQuestion(reset_if_exhausted, pick, failure)
    \/ ResetReturnedQuestions

\* the other components idle
QuestionInit == Init /\ scenario.workers = 1

QuestionSpec == QuestionInit /\ [][QuestionNext]_vars

\* ---- the user repository, src/src/database/user.py

\* UsersManager(), lines 18-26: the table exists already, with any content
UserInit ==
    /\ SchedInit
    /\ scenario.workers = 1
    /\ commands = <<>>
    /\ line = <<>>
    /\ call = NoCall
    /\ message = NoMessage
    /\ reply = NoReply
    /\ QuestionsInit
    /\ users \in UserTables
    /\ committed = users
    /\ ures = NoURes
    /\ LimiterInit
    /\ DailyIdle

\* add_user, lines 46-57: INSERT with enabled False and the default lang; a
\* second row of the same id is an error, and the rollback undoes what the
\* connection has not committed
AddUser(user_id) ==
    /\ IF user_id \in DOMAIN users
       THEN /\ users' = committed
            /\ ures' = [op |-> "add_user", kind |-> "raised", value |-> <<>>]
       ELSE /\ users' = [u \in DOMAIN users \cup {user_id} |->
                           IF u = user_id
                           THEN [enabled |-> FALSE, lang |-> "en"]
                           ELSE users[u]]
            /\ ures' = [op |-> "add_user", kind |-> "True", value |-> <<>>]
    /\ UNCHANGED <<committed, schedVars, cmdVars, webVars, questionVars,
                   limiterVars, dailyVars>>

\* remove_user, lines 59-69: DELETE and commit
RemoveUser(user_id) ==
    /\ users' = [u \in DOMAIN users \ {user_id} |-> users[u]]
    /\ committed' = users'
    /\ ures' = [op |-> "remove_user",
                kind |-> IF user_id \in DOMAIN users THEN "True" ELSE "False",
                value |-> <<>>]
    /\ UNCHANGED <<schedVars, cmdVars, webVars, questionVars,
                   limiterVars, dailyVars>>

\* toggle_enabled, lines 71-80: UPDATE ... RETURNING enabled; with no row
\* fetchone() is None and the subscript raises TypeError
ToggleEnabled(user_id) ==
    /\ IF user_id \in DOMAIN users
       THEN /\ users' = [users EXCEPT ![user_id].enabled = ~@]
            /\ ures' = [op |-> "toggle_enabled",
                        kind |-> IF users[user_id].enabled THEN "False" ELSE "True",
                        value |-> <<>>]
       ELSE /\ ures' = [op |-> "toggle_enabled", kind |-> "raised",
                        value |-> <<>>]
            /\ UNCHANGED users
    /\ UNCHANGED <<committed, schedVars, cmdVars, webVars, questionVars,
                   limiterVars, dailyVars>>

\* the orders in which a SELECT without ORDER BY can give the rows of S
Orders(S) ==
    {q \in [1..Cardinality(S) -> S] : \A i, j \in DOMAIN q : i # j => q[i] # q[j]}

\* dict.get(key, default)
Get(dict, key, default) == IF key \in DOMAIN dict THEN dict[key] ELSE default

\* the loop of lines 91-92 (and 108-109): users.get(lang, []).append(user_id)
\* appends to the list get returns, which is the list stored under lang when
\* there is one and a new list, stored nowhere, when there is none
RECURSIVE Group(_, _)
Group(result, dict) ==
    IF result = <<>> THEN dict
    ELSE LET user_id == Head(result)
             lang == users[user_id].lang
             list == Append(Get(dict, lang, <<>>), user_id)
         IN  Group(Tail(result),
                   IF lang \in DOMAIN dict
                   THEN [dict EXCEPT ![lang] = list]
                   ELSE dict)

\* get_enabled_users, lines 82-97; result is what fetchall() gives
GetEnabledUsers(result) ==
    /\ result \in Orders({u \in DOMAIN users : users[u].enabled})
    /\ ures' = [op |-> "get_enabled_users", kind |-> "returned",
                value |-> Group(result, <<>>)]
    /\ UNCHANGED <<users, committed, schedVars, cmdVars, webVars, questionVars,
                   limiterVars, dailyVars>>

\* get_all_users, lines 99-113
GetAllUsers(result) ==
    /\ result \in Orders(DOMAIN users)
    /\ ures' = [op |-> "get_all_users", kind |-> "returned",
                value |-> Group(result, <<>>)]
    /\ UNCHANGED <<users, committed, schedVars, cmdVars, webVars, questionVars,
                   limiterVars, dailyVars>>

UserNext ==
    \/ \E user_id \in UserIds : AddUser(user_id)
    \/ \E user_id \in UserIds : RemoveUser(user_id)
    \/ \E user_id \in UserIds : ToggleEnabled(user_id)
    \/ \E result \in Orders(UserIds) \cup Orders({}) \cup
                     UNION {Orders({u}) : u \in UserIds} : GetEnabledUsers(result)
    \/ \E result \in Orders(UserIds) \cup Orders({}) \cup
                     UNION {Orders({u}) : u \in UserIds} : GetAllUsers(result)

UserSpec == UserInit /\ [][UserNext]_vars

\* ---- the rate limiter, src/src/database/limiter.py and pool.py

\* a row as ConnectionPool.execute gives it: conn.cursor() of pool.py line 47
\* has no cursor_factory, so fetchall() gives tuples, indexed by position
Fetched(row) == [i \in {"0", "1"} |->
                    IF i = "0" THEN row.request_count ELSE row.window_start]

\* _clean_old_records, lines 28-34: the rows that stay
CleanOldRecords(table) ==
    [p \in {q \in DOMAIN table : ~(table[q].window_start < now - 1)} |-> table[p]]

\* is_rate_limited, lines 37-86, all of it under __LOCK; time is in minutes
IsRateLimited(pair) ==
    LET cleaned == CleanOldRecords(rate_limits)
        result == IF pair \in DOMAIN cleaned THEN Fetched(cleaned[pair]) ELSE <<>>
        current_time == now
        ended(kind, table) ==
            /\ rate_limits' = table
            /\ lres' = [pair |-> pair, kind |-> kind, before |-> rate_limits]
    IN  /\ hits[pair] <= REQUESTS_PER_MINUTE
        /\ hits' = [hits EXCEPT ![pair] =
                      IF pair \in DOMAIN cleaned THEN @ + 1 ELSE 1]
        /\ IF result = <<>>
           THEN ended("False",
                      [p \in DOMAIN cleaned \cup {pair} |->
                          IF p = pair
                          THEN [request_count |-> 1, window_start |-> now]
                          ELSE cleaned[p]])
           ELSE IF "window_start" \notin DOMAIN result
                   \/ "request_count" \notin DOMAIN result
           THEN ended("TypeError", cleaned)
           ELSE IF current_time - result["window_start"] > 1
           THEN ended("False",
                      [cleaned EXCEPT ![pair] =
                          [request_count |-> 1, window_start |-> now]])
           ELSE IF result["request_count"] >= REQUESTS_PER_MINUTE
           THEN ended("True", cleaned)
           ELSE ended("False",
                      [cleaned EXCEPT ![pair].request_count = @ + 1])
        /\ UNCHANGED <<schedVars, cmdVars, webVars, questionVars, userVars,
                       dailyVars>>

LimiterNext ==
    \/ \E pair \in Pairs : IsRateLimited(pair)
    \/ Tick

\* the other components idle
LimiterInitial == Init /\ scenario.workers = 1

LimiterSpec == LimiterInitial /\ [][LimiterNext]_vars

\* ---- the daily broadcast, src/src/line/daily.py

\* the question table has its rows before the broadcasts begin
DailyInit ==
    /\ SchedInit
    /\ scenario.workers = 1
    /\ commands = <<>>
    /\ line = <<>>
    /\ call = NoCall
    /\ message = NoMessage
    /\ reply = NoReply
    /\ \E n \in 0..MaxQuestions : questions = 1..n /\ serial = n + 1
    /\ returned_questions = {}
    /\ given = <<>>
    /\ qres = NoQRes
    /\ UsersInit
    /\ LimiterInit
    /\ DailyIdle

\* add_user_id, lines 33-37: the id is appended to the file unless it is there
AddUserId(user_id) ==
    /\ user_ids' = IF \E i \in DOMAIN user_ids : user_ids[i] = user_id
                   THEN user_ids ELSE Append(user_ids, user_id)
    /\ UNCHANGED <<group_ids, TODAY_QUESTION, broadcast, got_question, got_answer,
                   schedVars, cmdVars, webVars, questionVars, userVars,
                   limiterVars>>

\* add_group_id, lines 47-51
AddGroupId(group_id) ==
    /\ group_ids' = IF \E i \in DOMAIN group_ids : group_ids[i] = group_id
                    THEN group_ids ELSE Append(group_ids, group_id)
    /\ UNCHANGED <<user_ids, TODAY_QUESTION, broadcast, got_question, got_answer,
                   schedVars, cmdVars, webVars, questionVars, userVars,
                   limiterVars>>

\* send_question, lines 73-75, called by the scheduler's worker: the two
\* files are read; the users are served first, then the groups
SendQuestion ==
    /\ broadcast = NoJob
    /\ broadcast' = [name |-> "send_question", todo |-> user_ids \o group_ids]
    /\ got_question' = [r \in Recipients |-> NotSent]
    /\ got_answer' = [r \in Recipients |-> NotSent]
    /\ UNCHANGED <<user_ids, group_ids, TODAY_QUESTION, schedVars, cmdVars,
                   webVars, questionVars, userVars, limiterVars>>

\* one round of the loops of lines 80-110: make_question (lines 54-58) makes
\* a question for this recipient and stores it in TODAY_QUESTION, and the
\* message is pushed; an error of random_question or of push_message is
\* caught and logged, and the loop goes on
QuestionPush(pick, failure, pushed) ==
    LET to == Head(broadcast.todo)
    IN  /\ broadcast.name = "send_question" /\ broadcast.todo # <<>>
        /\ RandomQuestionCall(TRUE, pick, failure)
        /\ IF qres'.kind = "raised"
           THEN UNCHANGED <<TODAY_QUESTION, got_question>>
           ELSE /\ TODAY_QUESTION' = IF qres'.kind = "question" THEN qres'.id
                                      ELSE None
                /\ got_question' =
                      IF pushed
                      THEN [got_question EXCEPT ![to] =
                              IF qres'.kind = "question" THEN qres'.id
                              ELSE RanOut]
                      ELSE got_question
        /\ broadcast' = [broadcast EXCEPT !.todo = Tail(@)]
        /\ UNCHANGED <<user_ids, group_ids, got_answer, schedVars, cmdVars,
                       webVars, userVars, limiterVars>>

\* send_answer, lines 113-115
SendAnswer ==
    /\ broadcast = NoJob
    /\ broadcast' = [name |-> "send_answer", todo |-> user_ids \o group_ids]
    /\ got_answer' = [r \in Recipients |-> NotSent]
    /\ UNCHANGED <<user_ids, group_ids, TODAY_QUESTION, got_question, schedVars,
                   cmdVars, webVars, questionVars, userVars, limiterVars>>

\* one round of the loops of lines 120-148: make_answer (lines 61-64) takes
\* the answer of TODAY_QUESTION, and the message is pushed or fails
AnswerPush(pushed) ==
    LET to == Head(broadcast.todo)
    IN  /\ broadcast.name = "send_answer" /\ broadcast.todo # <<>>
        /\ got_answer' =
              IF pushed
              THEN [got_answer EXCEPT ![to] =
                      IF TODAY_QUESTION # None THEN TODAY_QUESTION ELSE RanOut]
              ELSE got_answer
        /\ broadcast' = [broadcast EXCEPT !.todo = Tail(@)]
        /\ UNCHANGED <<user_ids, group_ids, TODAY_QUESTION, got_question,
                       schedVars, cmdVars, webVars, questionVars, userVars,
                       limiterVars>>

\* the loops are over: the job returns to the scheduler
JobReturns ==
    /\ broadcast # NoJob /\ broadcast.todo = <<>>
    /\ broadcast' = NoJob
    /\ UNCHANGED <<user_ids, group_ids, TODAY_QUESTION, got_question,
                   got_answer, schedVars, cmdVars, webVars, questionVars,
                   userVars, limiterVars>>

DailyNext ==
    \/ \E user_id \in DailyUsers : AddUserId(user_id)
    \/ \E group_id \in DailyGroups : AddGroupId(group_id)
    \/ SendQuestion
    \/ \E pick \in QuestionIds \cup {0}, failure \in Failures, pushed \in BOOLEAN :
          QuestionPush(pick, failure, pushed)
    \/ SendAnswer
    \/ \E pushed \in BOOLEAN : AnswerPush(pushed)
    \/ JobReturns

DailySpec == DailyInit /\ [][DailyNext]_vars

\* ---- steps the properties speak of

\* the callback of worker w's call ends by raising
RaisesStep(w) == pc[w] = "exec_action" /\ pc'[w] \notin {"exec_action", "exec_post"}
\* worker w's loop test passes and run_pending collects the runnable jobs
TickStep(w) == pc[w] = "loop" /\ pc'[w] \in {"exec_lock", "sleep"}
\* worker w is inside run_pending, at one of its jobs
InTick(w) ==
    pc[w] \in {"exec_lock", "exec_call", "exec_action", "exec_post", "job_done"}
\* how often x occurs in the sequence q
Count(q, x) == Cardinality({i \in DOMAIN q : q[i] = x})
\* worker w's lookup is made
LookupStep(w) == pc[w] = "exec_lock" /\ pc'[w] # "exec_lock"
\* worker w calls the callback
CallStep(w) == pc[w] = "exec_call" /\ pc'[w] = "exec_action"
\* worker w's bookkeeping is made and execute_callback returns
PostStep(w) == pc[w] = "exec_post" /\ pc'[w] # "exec_post"
\* Job.run of worker w finishes the job
DoneStep(w) == pc[w] = "job_done" /\ pc'[w] # "job_done"

\* ---- properties

\* C1: when the callback of an execute_callback call raises, the call returns
\* False to its caller: the worker goes on in Job.run, the error is not passed on.
ExecuteCatchesErrors ==
    [][\A w \in Workers :
          RaisesStep(w) => pc'[w] = "job_done" /\ res'[w].val = "False"]_vars

\* C1 witness: an execute_callback whose callback raised has returned False
ExecuteCaughtError ==
    \E w \in Workers : pc[w] = "job_done" /\ res[w] = [val |-> "False", log |-> "failed"]

\* C2: a get_all_callbacks call can always go on to its return, and returns
\* one record per job of the map: the thread inside it, which holds the lock
\* and so cannot be helped by another thread, has its next step enabled, and
\* at the return the list is as long as the map.
StatusAllCompletes ==
    \A t \in Admins :
        lock = t =>
            /\ ENABLED (GetCallbackStatus(t) \/ GetAllCallbacksIter(t))
            /\ todo[t] = <<>> => Len(out[t]) = Cardinality(DOMAIN callbacks)

\* C3: no thread asks for the lock while it holds it.
NoNestedLocking ==
    \A t \in Threads : pc[t] \in {"gcs_lock", "exec_lock", "exec_post"} => lock # t

\* C4: when an execution has succeeded and the job is still registered, the
\* stored next_run is later than the start time of that execution.
NextRunAfterExecution ==
    [][\A w \in Workers :
          PostStep(w) /\ cid[w] \in DOMAIN callbacks'
          => callbacks'[cid[w]].next_run > etime[w]]_vars

\* C5: when the worker has handled the fire time of a disabled job, the
\* callback was not called and the stored next_run is an occurrence of the
\* fire time later than now.
DisabledStillAdvances ==
    [][\A w \in Workers :
          DoneStep(w) /\ res[w].log = "skipping disabled"
                      /\ cid[w] \in DOMAIN callbacks'
          => /\ callbacks'[cid[w]].next_run > now
             /\ callbacks'[cid[w]].next_run % DayLen
                    = callbacks'[cid[w]].schedule_time]_vars

\* C6: the lookup of a registered, disabled job returns True at once: the
\* callback is not called and nothing is written, last_run included.
DisabledIsNoOpSuccess ==
    [][\A w \in Workers :
          LookupStep(w) /\ cid[w] \in DOMAIN callbacks
                        /\ ~callbacks[cid[w]].enabled
          => /\ pc'[w] = "job_done"
             /\ res'[w].val = "True"
             /\ callbacks' = callbacks]_vars

\* C6 witness: a worker's call has returned from the lookup of a disabled job
DisabledSkipped ==
    \E w \in Workers :
        /\ pc[w] = "job_done"
        /\ res[w] = [val |-> "True", log |-> "skipping disabled"]
        /\ cid[w] \in DOMAIN callbacks
        /\ ~callbacks[cid[w]].enabled

\* C7: the lookup of an id that is not in the job map returns False at once:
\* nothing is raised, the callback is not called, the map is unchanged.
MissingReturnsFailure ==
    [][\A w \in Workers :
          LookupStep(w) /\ cid[w] \notin DOMAIN callbacks
          => /\ pc'[w] = "job_done"
             /\ res'[w].val = "False"
             /\ callbacks' = callbacks]_vars

\* C7 witness: a worker's call for a removed id has returned False
MissingReported ==
    \E w \in Workers :
        /\ pc[w] = "job_done"
        /\ res[w] = [val |-> "False", log |-> "not found"]
        /\ cid[w] \notin DOMAIN callbacks

\* C8: when the job was removed while its callback ran, the bookkeeping
\* writes nothing, the id stays absent and the call returns without raising.
RemovedNotResurrected ==
    [][\A w \in Workers :
          PostStep(w) /\ cid[w] \notin DOMAIN callbacks
          => /\ callbacks' = callbacks
             /\ pc'[w] = "job_done"
             /\ res'[w].val \in {"True", "False"}]_vars

\* C8 witness: a call whose job was removed during the callback has returned
RemovedDuringAction ==
    \E w \in Workers :
        /\ pc[w] = "job_done"
        /\ res[w].log = "executed"
        /\ cid[w] \notin DOMAIN callbacks

\* C9: once remove_callback has deleted a job, no worker calls its callback.
RemoveCancelsFiring ==
    [][\A w \in Workers : CallStep(w) => cid[w] \in DOMAIN callbacks]_vars

\* C10: at most one worker thread is alive.
AtMostOneWorker == Cardinality({w \in Workers : IsAlive(w)}) <= 1

\* C11: after stop(), with no start() since, the worker loop ends at its next
\* test of the flag, wherever the worker was when stop() ran: the flag stop()
\* cleared stays cleared.
StoppedStaysStopped == stopped => ~is_running

\* C12: while the callback of an execute_callback call runs, the calling
\* thread does not hold the lock: unless another thread holds it, remove,
\* enable, disable, a waiting status call and (while ids remain) register
\* can take their step.
ActionLeavesLockFree ==
    \A w \in Workers :
        pc[w] = "exec_action" =>
            /\ lock # w
            /\ lock = NoThread =>
                  /\ \A id \in Ids : /\ ENABLED RemoveCallback(id)
                                     /\ ENABLED EnableCallback(id)
                                     /\ ENABLED DisableCallback(id)
                  /\ nextId <= scenario.jobs =>
                        \A at \in FireTimes : ENABLED Register(at, TRUE)
                  /\ \A t \in Admins :
                        pc[t] = "gcs_lock" => ENABLED GetCallbackStatus(t)

\* C12 witness: a callback is running and its job has been disabled since
\* the lookup found it enabled
DisabledWhileRunning ==
    \E w \in Workers :
        /\ pc[w] = "exec_action"
        /\ lock = NoThread
        /\ cid[w] \in DOMAIN callbacks
        /\ ~callbacks[cid[w]].enabled

\* C13: a job is registered with last_run unset; last_run is written only by
\* the bookkeeping of a call whose callback returned, which stores the start
\* time of that call; a call that fails or is skipped leaves it as it was.
LastRunIsLastSuccess ==
    [][/\ \A id \in DOMAIN callbacks' \ DOMAIN callbacks :
              callbacks'[id].last_run = None
       /\ \A id \in DOMAIN callbacks' \cap DOMAIN callbacks :
              callbacks'[id].last_run # callbacks[id].last_run
              => \E w \in Workers : PostStep(w) /\ cid[w] = id
       /\ \A w \in Workers :
              PostStep(w) /\ cid[w] \in DOMAIN callbacks
              => callbacks'[cid[w]].last_run = etime[w]]_vars

\* C13 witness: a job that has run with success before has now failed
FailedAfterSuccess ==
    \E w \in Workers :
        /\ pc[w] = "job_done"
        /\ res[w].log = "failed"
        /\ cid[w] \in DOMAIN callbacks
        /\ callbacks[cid[w]].last_run # None

\* C14: when a tick begins with two jobs of the same fire time due, it takes
\* up both, each once; inside the tick the jobs taken up are run one after
\* the other, none dropped and none run again.
SameTimeBothRun ==
    [][\A w \in Workers :
          /\ TickStep(w) =>
                \A j, k \in DOMAIN jobs :
                    /\ j # k
                    /\ jobs[j].at_time = jobs[k].at_time
                    /\ ShouldRun(j) /\ ShouldRun(k)
                    => /\ pc'[w] = "exec_lock"
                       /\ Count(<<cid'[w]>> \o runq'[w], j) = 1
                       /\ Count(<<cid'[w]>> \o runq'[w], k) = 1
          /\ InTick(w) /\ ~DoneStep(w) =>
                cid'[w] = cid[w] /\ runq'[w] = runq[w]
          /\ DoneStep(w) /\ runq[w] # <<>> =>
                /\ pc'[w] = "exec_lock"
                /\ cid'[w] = Head(runq[w])
                /\ runq'[w] = Tail(runq[w])]_vars

\* C14 witness: the second of two jobs of the same fire time has run, in the
\* tick in which the first one ran for the occurrence both were due at
BothRanInOneTick ==
    \E w \in Workers : \E j, k \in DOMAIN callbacks :
        /\ j # k
        /\ jobs[j].at_time = jobs[k].at_time
        /\ pc[w] = "job_done" /\ cid[w] = k /\ runq[w] = <<>>
        /\ res[w].log = "executed"
        /\ callbacks[j].last_run # None
        /\ callbacks[j].last_run >= jobs[k].next_run
        /\ jobs[j].next_run > jobs[k].next_run

FailureContained ==
    [][\A w \in Workers :
          /\ RaisesStep(w) =>
                /\ pc'[w] = "job_done"
                /\ cid'[w] = cid[w] /\ runq'[w] = runq[w]
                /\ jobs' = jobs
          /\ DoneStep(w) /\ res[w].log = "failed" =>
                /\ IF runq[w] # <<>>
                   THEN pc'[w] = "exec_lock" /\ cid'[w] = Head(runq[w])
                                            /\ runq'[w] = Tail(runq[w])
                   ELSE pc'[w] = "sleep"
                /\ cid[w] \in DOMAIN jobs'
                /\ jobs'[cid[w]].next_run > now
                /\ jobs'[cid[w]].next_run <= now + DayLen
                /\ jobs'[cid[w]].next_run % DayLen = jobs[cid[w]].at_time]_vars

\* C16 witness: a callback has raised in a tick that has more jobs to run
FailedWithJobsLeft ==
    \E w \in Workers :
        /\ pc[w] = "job_done"
        /\ res[w] = [val |-> "False", log |-> "failed"]
        /\ runq[w] # <<>>

\* C17: the next_run register stores for the new job is later than the time
\* of the call, at most a day later, and an occurrence of the fire time: it
\* is the nearest occurrence to come.
RegisteredNextRunNearest ==
    [][nextId' # nextId /\ nextId \in DOMAIN callbacks' =>
          /\ callbacks'[nextId].next_run > now
          /\ callbacks'[nextId].next_run <= now + DayLen
          /\ callbacks'[nextId].next_run % DayLen
                 = callbacks'[nextId].schedule_time]_vars

\* C17 witness: on the first day, one job is registered for an occurrence
\* of that day and one for an occurrence of the day after
RegisteredTodayAndTomorrow ==
    /\ now < DayLen
    /\ \E j, k \in DOMAIN callbacks :
          callbacks[j].next_run < DayLen /\ callbacks[k].next_run >= DayLen

\* C18: a register call with a schedule_time that is not a time of day adds
\* nothing to the job map or to the library's job list and leaves the lock
\* free, so every operation that waits for the lock can go on.
BadTimeRegistersNothing ==
    [][\A en \in BOOLEAN :
          Register(BadTime, en) =>
              /\ callbacks' = callbacks
              /\ jobs' = jobs
              /\ lock' = NoThread]_vars

\* C18 witness: the first register call failed and the second one succeeded
RegisteredAfterBadTime ==
    /\ nextId = 3
    /\ DOMAIN callbacks = {2}
    /\ DOMAIN jobs = {2}

\* C19: enable_callback and disable_callback return True exactly for an id
\* of the job map; then the job's enabled flag is True resp. False after
\* the call and its other fields, the other jobs and the library's jobs are
\* as before; for any other id nothing changes.
EnableDisableFrame ==
    [][\A id \in Ids :
          /\ SetEnabledReturn(id) <=> id \in DOMAIN callbacks
          /\ EnableCallback(id) \/ DisableCallback(id) =>
                /\ DOMAIN callbacks' = DOMAIN callbacks
                /\ \A k \in DOMAIN callbacks \ {id} : callbacks'[k] = callbacks[k]
                /\ jobs' = jobs
                /\ ~SetEnabledReturn(id) => callbacks' = callbacks
          /\ EnableCallback(id) /\ SetEnabledReturn(id) =>
                callbacks'[id] = [callbacks[id] EXCEPT !.enabled = TRUE]
          /\ DisableCallback(id) /\ SetEnabledReturn(id) =>
                callbacks'[id] = [callbacks[id] EXCEPT !.enabled = FALSE]]_vars

\* C19 witness: of two jobs one has run and has been disabled since, the
\* other is enabled
DisabledOneOfTwo ==
    \E j, k \in DOMAIN callbacks :
        /\ j # k
        /\ ~callbacks[j].enabled /\ callbacks[j].last_run # None
        /\ callbacks[k].enabled

\* C20: a line whose first token is a case variant of a registered name is
\* not answered with UnknownCommandError, and when the handler is called it
\* is the handler of a command registered under a case variant of the token.
CaseInsensitiveLookup ==
    [][call' # call =>
          \A n \in DOMAIN commands :
              /\ Split(line) # <<>>
              /\ LowerStr(Head(Split(line))) = LowerStr(n)
              => /\ call'.kind # "UnknownCommandError"
                 /\ call'.kind \in {"returned", "raised"} =>
                       \E m \in DOMAIN commands :
                           /\ LowerStr(m) = LowerStr(n)
                           /\ call'.func = commands[m].func]_vars

\* C21: a call whose first token, lower-cased, is a key of the registry and
\* that has at least as many argument tokens as the command requires calls
\* the command's handler, once, with the first argument tokens in their
\* order, as many as there are but not more than required plus optional
\* ones; it raises no error of its own.
ArgsPassedInOrder ==
    LET parts == Split(line)
        c == commands[LowerStr(Head(parts))]
        n == Len(parts) - 1
        most == Len(c.required_args) + Len(c.optional_args)
        k == IF n < most THEN n ELSE most
    IN  /\ call.kind # "none"
        /\ parts # <<>>
        /\ LowerStr(Head(parts)) \in DOMAIN commands
        /\ n >= Len(c.required_args)
        => /\ call.kind \in {"returned", "raised"}
           /\ call.handler \in HandlerOutcomes
           /\ call.func = c.func
           /\ Len(call.args) = k
           /\ \A i \in 1..k : call.args[i] = parts[i + 1]

\* C21 witness: a handler was called with the first argument tokens and
\* returned; the line had more tokens, which were dropped
ExtraTokensDropped ==
    /\ call.kind = "returned"
    /\ call.args # <<>>
    /\ Len(call.args) < Len(Split(line)) - 1

\* C22: a call for a registered command with fewer argument tokens than the
\* command requires raises MissingArgumentsError with the lower-cased name
\* and the whole required_args list; no handler is called.
TooFewArgsRaises ==
    LET parts == Split(line)
        c == commands[LowerStr(Head(parts))]
    IN  /\ call.kind # "none"
        /\ parts # <<>>
        /\ LowerStr(Head(parts)) \in DOMAIN commands
        /\ Len(parts) - 1 < Len(c.required_args)
        => /\ call.kind = "MissingArgumentsError"
           /\ call.name = LowerStr(Head(parts))
           /\ call.missing = c.required_args
           /\ call.func = "" /\ call.handler = NoOutcome

\* C22 witness: one argument was supplied of two required, and the error
\* names both
OneOfTwoArgsMissing ==
    /\ call.kind = "MissingArgumentsError"
    /\ Len(Split(line)) = 2
    /\ Len(call.missing) = 2

\* C23: a call whose first token, lower-cased, is no key of the registry
\* raises UnknownCommandError with the lower-cased token; no handler is
\* called.
UnknownNameRaises ==
    LET parts == Split(line)
    IN  /\ call.kind # "none"
        /\ parts # <<>>
        /\ LowerStr(Head(parts)) \notin DOMAIN commands
        => /\ call.kind = "UnknownCommandError"
           /\ call.name = LowerStr(Head(parts))
           /\ call.func = "" /\ call.handler = NoOutcome

\* C23 witness: the token of an unknown command had an upper-case letter,
\* the error carries it lower-cased; the registry is not empty
UnknownNameFolded ==
    /\ call.kind = "UnknownCommandError"
    /\ call.name # Head(Split(line))
    /\ commands # <<>>

\* C24: a call with a line that has no character other than whitespace
\* raises NoCommandError, whatever the registry holds; no handler is called.
BlankLineRaises ==
    call.kind # "none" /\ (\A i \in DOMAIN line : line[i] = " ")
    => /\ call.kind = "NoCommandError"
       /\ call.func = "" /\ call.handler = NoOutcome

\* C24 witness: a line of whitespace was parsed with a command registered
BlankLineParsed ==
    /\ call.kind = "NoCommandError"
    /\ line # <<>>
    /\ commands # <<>>

\* C25: when the handler was called, the call ends as the handler did: it
\* returns the value the handler returned, or the error the handler raised
\* leaves it, and none of the engine's own errors is raised.
HandlerResultVerbatim ==
    call.func # "" =>
        /\ call.handler \in HandlerOutcomes
        /\ call.kind = call.handler.kind
        /\ call.value = call.handler.value

\* C25 witness: a handler raised and its error left parse_and_execute
HandlerErrorPropagated ==
    /\ call.func # ""
    /\ call.kind = "raised"
    /\ call.value = "err"

\* C26: no two calls of the callback of one job are under way at once.
OneActionPerJob ==
    \A id \in Ids :
        Cardinality({w \in Workers : pc[w] = "exec_action" /\ cid[w] = id}) <= 1

\* C27: the job map and the fields of its jobs are written only in a step
\* of a thread that found the lock free, took it and gave it back: never
\* while another thread holds the lock.
WritesUnderLock ==
    [][callbacks' # callbacks => lock = NoThread /\ lock' = NoThread]_vars

\* C27 witness: a job was inserted and deleted, another one has run and was
\* disabled
EveryKindOfWrite ==
    \E j \in DOMAIN jobs \ DOMAIN callbacks : \E k \in DOMAIN callbacks :
        callbacks[k].last_run # None /\ ~callbacks[k].enabled

\* C28: stop() changes nothing of a worker's position; a worker thread ends
\* only at the loop test, the flag cleared; with the flag cleared the tick
\* under way goes on to its next job and sleeps when there is none.
StopLetsTickFinish ==
    [][\A w \in Workers :
          /\ pc'[w] = "exited" /\ pc[w] # "exited" =>
                pc[w] = "loop" /\ ~is_running
          /\ is_running /\ ~is_running' =>
                pc' = pc /\ cid' = cid /\ runq' = runq /\ etime' = etime
          /\ DoneStep(w) /\ ~is_running =>
                IF runq[w] # <<>>
                THEN pc'[w] = "exec_lock" /\ cid'[w] = Head(runq[w])
                ELSE pc'[w] = "sleep"]_vars

\* C28 witness: a callback has returned in a worker after stop() was called
ActionEndedAfterStop ==
    \E w \in Workers : pc[w] = "exec_post" /\ stopped /\ ~is_running

\* C29: a worker calls the callback of a registered job only when the job
\* is enabled.
DisabledNeverStarts ==
    [][\A w \in Workers :
          CallStep(w) /\ cid[w] \in DOMAIN callbacks
          => callbacks[cid[w]].enabled]_vars

\* C30: a start() call that follows a stop() call leaves a worker that goes
\* on ticking: it makes a new thread, or finds a live one that has the flag
\* set or is about to set it.
StartAfterStopRevives ==
    [][stopped /\ ~stopped' =>
          \/ \E t \in Admins : pc[t] # "start_create" /\ pc'[t] = "start_create"
          \/ \E w \in Workers : IsAlive(w) /\ (is_running \/ pc[w] = "spawned")]_vars

\* C31: whenever get_status returns, the callback_count of its dict is the
\* number of entries of its callbacks list, whatever register and remove calls
\* of other threads ran during the call.
StatusCountMatchesList ==
    \A t \in Admins :
        pc[t] = "gs_return" =>
            StatusDict(t).callback_count = Len(StatusDict(t).callbacks)

\* C32: for a text that begins with "/", process_message turns each error of
\* the engine into a reply: no command gives the filler "owob", an unknown
\* command the translation of cmd_unknown, and too few arguments the
\* translation of missing_args formatted with the required arguments that were
\* not supplied; only an error of a handler leaves process_message.
EngineErrorsBecomeReplies ==
    reply # NoReply /\ message.type = "text"
                    /\ StartsWith(Strip(message.text), "/") =>
        LET parts == Split(Tail(Strip(message.text)))
            name == LowerStr(Head(parts))
            args == Tail(parts)
            required == commands[name].required_args
            supplied == IF Len(args) < Len(required) THEN Len(args)
                        ELSE Len(required)
        IN  /\ reply.kind = "raised" => call.handler.kind = "raised"
            /\ parts = <<>> => reply = Literal("owob")
            /\ parts # <<>> /\ name \notin DOMAIN commands =>
                   reply = I18NGet("cmd_unknown", message.lang)
            /\ parts # <<>> /\ name \in DOMAIN commands
                            /\ Len(args) < Len(required) =>
                   reply = Format(I18NGet("missing_args", message.lang),
                                  Str(SubSeq(required, supplied + 1,
                                             Len(required))))

\* "/Echo" alone, with blanks around it, was answered with the missing msg
EchoWithoutMessage ==
    /\ message.text # Strip(message.text)
    /\ call.kind = "MissingArgumentsError"
    /\ reply.kind = "i18n" /\ reply.text = "missing_args"
    /\ reply.args = <<Str(<<"msg">>)>>
    /\ Head(Split(Tail(Strip(message.text)))) # call.name

\* C33: between two resets of the tracking set, the ids random_question
\* returned are pairwise distinct and each of them is in the tracking set.
NeverRepeatsBetweenResets ==
    /\ \A i, j \in DOMAIN given : i # j => given[i] # given[j]
    /\ \A i \in DOMAIN given : given[i] \in returned_questions

\* three questions were returned since the last reset, and not in id order
ThreeGivenSinceReset ==
    /\ Len(given) = 3
    /\ given[1] > given[2]
    /\ qres.op = "random" /\ qres.kind = "question"

\* C34: with a table that is not empty and whose questions have all been
\* returned, a random_question(False) call returns None and leaves the
\* tracking set as it was, and a random_question(True) call returns a question
\* of the table and leaves the tracking set with that question's id alone.
ExhaustedNoneOrRestart ==
    qres.op = "random" /\ qres.kind # "raised" /\ qres.table # {}
                       /\ qres.table \subseteq qres.before =>
        IF qres.reset_if_exhausted
        THEN /\ qres.kind = "question"
             /\ qres.id \in qres.table
             /\ returned_questions = {qres.id}
        ELSE /\ qres.kind = "None"
             /\ returned_questions = qres.before

\* a call with reset_if_exhausted started over again after all three
\* questions had been returned
RestartedAfterAll ==
    /\ qres.op = "random" /\ qres.reset_if_exhausted
    /\ qres.table = QuestionIds /\ qres.before = QuestionIds
    /\ qres.kind = "question" /\ returned_questions = {qres.id}

\* C35: the mapping get_enabled_users returns has every user whose enabled
\* flag is true exactly once, in the list of the user's language, and has no
\* user whose flag is false.
EnabledUsersGrouped ==
    ures.op = "get_enabled_users" =>
        \A u \in DOMAIN users :
            IF users[u].enabled
            THEN /\ users[u].lang \in DOMAIN ures.value
                 /\ Count(ures.value[users[u].lang], u) = 1
                 /\ \A l \in DOMAIN ures.value \ {users[u].lang} :
                        Count(ures.value[l], u) = 0
            ELSE \A l \in DOMAIN ures.value : Count(ures.value[l], u) = 0

\* C36: for each pair the stored request_count never exceeds
\* REQUESTS_PER_MINUTE, a request that comes after REQUESTS_PER_MINUTE requests
\* of the pair's window is reported as limited, and a limited request leaves
\* the table as it was.
RateLimitEnforced ==
    /\ \A p \in DOMAIN rate_limits :
          rate_limits[p].request_count <= REQUESTS_PER_MINUTE
    /\ lres.kind # "none" /\ hits[lres.pair] > REQUESTS_PER_MINUTE =>
          lres.kind = "True"
    /\ lres.kind = "True" => rate_limits = lres.before

\* C37: the answer a recipient receives from send_answer is the answer of the
\* question the same recipient received from the send_question before it.
AnswerMatchesQuestion ==
    \A r \in Recipients :
        got_question[r] # NotSent /\ got_answer[r] # NotSent =>
            got_answer[r] = got_question[r]

====
